---- MODULE Spec2Model ----
(***************************************************************************)
(* Model of the credit-card ETL (src/etl/build_bi_cube.py): the lazy       *)
(* transformation pipeline build_optimized_pipeline, evaluated by the      *)
(* dataframe engine when main sinks it, and main's control flow            *)
(* (streaming sink, materialization fallback, critical-error handler).    *)
(*                                                                         *)
(* A nullable value is a sequence: <<>> is null, <<v>> is the value v.     *)
(* A string is a sequence of one-character strings.  Amounts are whole     *)
(* numbers (the decimal point and Float32 rounding are not modelled: sums  *)
(* and means are exact).                                                   *)
(***************************************************************************)
EXTENDS Integers, Sequences, FiniteSets

\* Largest number of data rows of the input file.
MaxRows == 2

Null == <<>>
Some(v) == <<v>>
IsNull(x) == x = <<>>
Val(x) == x[1]

----------------------------------------------------------------------------
(* Input values *)

Str_Yes == <<"Y", "e", "s">>
Str_YES == <<"Y", "E", "S">>
Str_yes == <<"y", "e", "s">>
Str_No == <<"N", "o">>

Amt_10 == <<"$", "1", "0">>
Amt_1000 == <<"$", "1", ",", "0", "0", "0">>
Amt_bad == <<"$", "1", "x">>

\* A typical record of the transactions file; day 31 of month 1.
BaseRow ==
    [ User |-> Some(1), Card |-> Some(0),
      Year |-> Some(2020), Month |-> Some(1), Day |-> Some(31),
      Amount |-> Some(Amt_10),
      Use_Chip |-> Some("Chip Transaction"),
      Merchant_City |-> Some("La Verne"),
      Merchant_State |-> Some("CA"),
      MCC |-> Some(5411),
      Errors |-> Null,
      Is_Fraud |-> Some(Str_No) ]

\* A record whose every field was read as null.
NullRow ==
    [ User |-> Null, Card |-> Null, Year |-> Null, Month |-> Null, Day |-> Null,
      Amount |-> Null, Use_Chip |-> Null, Merchant_City |-> Null,
      Merchant_State |-> Null, MCC |-> Null, Errors |-> Null, Is_Fraud |-> Null ]

\* The records of the input files: the typical record, every record that
\* differs from it in one column (month 2 makes day 31 an invalid date,
\* year 40000 does not fit 16 bits), and the all-null record.
RowDomain ==
    {BaseRow, NullRow}
    \cup {[BaseRow EXCEPT !.User = Some(2)]}
    \cup {[BaseRow EXCEPT !.Year = v] : v \in {Null, Some(40000)}}
    \cup {[BaseRow EXCEPT !.Month = Some(2)]}
    \cup {[BaseRow EXCEPT !.Amount = v] : v \in {Null, Some(Amt_1000), Some(Amt_bad)}}
    \cup {[BaseRow EXCEPT !.Use_Chip = Some("Swipe Transaction")]}
    \cup {[BaseRow EXCEPT !.Merchant_State = v] : v \in {Null, Some("NY")}}
    \cup {[BaseRow EXCEPT !.MCC = Some(5912)]}
    \cup {[BaseRow EXCEPT !.Errors = Some("Bad PIN")]}
    \cup {[BaseRow EXCEPT !.Is_Fraud = v] :
            v \in {Null, Some(Str_Yes), Some(Str_YES), Some(Str_yes)}}

Tables == UNION {[1..n -> RowDomain] : n \in 0..MaxRows}

----------------------------------------------------------------------------
(* Column expressions of build_optimized_pipeline *)

\* cast(pl.Int<bits>) is strict: a non-null value outside the type's range
\* raises instead of wrapping or becoming null.
CastIntFails(x, bits) ==
    /\ ~IsNull(x)
    /\ (Val(x) \div (2 ^ (bits - 2))) \notin {-2, -1, 0, 1}

NotCurrencyChar(c) == c \notin {"$", ","}

\* str.replace_all(r"[\$,]", "")
StripCurrency(s) == SelectSeq(s, NotCurrencyChar)

IsDigit(c) == c \in {"0", "1", "2", "3", "4", "5", "6", "7", "8", "9"}

DigitVal(c) ==
    CASE c = "0" -> 0 [] c = "1" -> 1 [] c = "2" -> 2 [] c = "3" -> 3
      [] c = "4" -> 4 [] c = "5" -> 5 [] c = "6" -> 6 [] c = "7" -> 7
      [] c = "8" -> 8 [] c = "9" -> 9

RECURSIVE ParseDigits(_)
ParseDigits(s) ==
    IF s = <<>> THEN 0
    ELSE 10 * ParseDigits(SubSeq(s, 1, Len(s) - 1)) + DigitVal(s[Len(s)])

\* The string-to-float conversion: null when the text is not a number.
ParseFloat(s) ==
    IF s # <<>> /\ \A i \in 1..Len(s) : IsDigit(s[i])
    THEN Some(ParseDigits(s))
    ELSE Null

\* pl.col("Amount").str.replace_all(...).cast(pl.Float32) as a value.
amount_clean(row) ==
    IF IsNull(row.Amount) THEN Null ELSE ParseFloat(StripCurrency(Val(row.Amount)))

\* The cast to Float32 is strict: a non-null text that is no number raises.
CastAmountFails(row) == ~IsNull(row.Amount) /\ IsNull(amount_clean(row))

LowerChar(c) ==
    CASE c = "Y" -> "y" [] c = "E" -> "e" [] c = "S" -> "s"
      [] c = "N" -> "n" [] c = "O" -> "o" [] OTHER -> c

\* str.to_lowercase()
to_lowercase(s) == [i \in 1..Len(s) |-> LowerChar(s[i])]

\* (pl.col("Is Fraud?").str.to_lowercase() == "yes"): a comparison with null
\* is null.
is_fraud(row) ==
    IF IsNull(row.Is_Fraud) THEN Null
    ELSE Some(to_lowercase(Val(row.Is_Fraud)) = Str_yes)

\* pl.col("Errors?").is_not_null()
has_error(row) == ~IsNull(row.Errors)

IsLeap(y) == (y % 4 = 0 /\ y % 100 # 0) \/ y % 400 = 0

DaysInMonth(y, m) ==
    IF m = 2 THEN (IF IsLeap(y) THEN 29 ELSE 28)
    ELSE IF m \in {4, 6, 9, 11} THEN 30 ELSE 31

ValidDate(y, m, d) == m \in 1..12 /\ d \in 1..DaysInMonth(y, m)

\* pl.date(Year, Month, Day) on components that are no calendar date.
InvalidDate(row) ==
    /\ ~IsNull(row.Year) /\ ~IsNull(row.Month) /\ ~IsNull(row.Day)
    /\ ~ValidDate(Val(row.Year), Val(row.Month), Val(row.Day))

\* pl.date(...).alias("date"): null unless the components form a date.
date(row) ==
    IF IsNull(row.Year) \/ IsNull(row.Month) \/ IsNull(row.Day) \/ InvalidDate(row)
    THEN Null
    ELSE Some(<<Val(row.Year), Val(row.Month), Val(row.Day)>>)

----------------------------------------------------------------------------
(* The lazy frame and its aggregation *)

\* The frame after the two with_columns calls: the kept columns with the
\* casts applied, plus amount_clean, is_fraud, has_error and date.
with_columns(row) ==
    [ User |-> row.User, Card |-> row.Card,
      Year |-> row.Year, Month |-> row.Month, Day |-> row.Day,
      Use_Chip |-> row.Use_Chip,
      Merchant_City |-> row.Merchant_City,
      Merchant_State |-> row.Merchant_State,
      MCC |-> row.MCC,
      amount_clean |-> amount_clean(row),
      is_fraud |-> is_fraud(row),
      has_error |-> has_error(row),
      date |-> date(row) ]

LazyFrame(t) == [i \in 1..Len(t) |-> with_columns(t[i])]

\* The strict integer casts of one record: Year, MCC to 16 bits, Month, Day,
\* Card to 8 bits, User to 32 bits.
CastFails(row) ==
    \/ CastIntFails(row.Year, 16)
    \/ CastIntFails(row.Month, 8)
    \/ CastIntFails(row.Day, 8)
    \/ CastIntFails(row.MCC, 16)
    \/ CastIntFails(row.User, 32)
    \/ CastIntFails(row.Card, 8)

\* The exception the engine raises when it evaluates the query on table t,
\* or "none".  date_raises: whether this engine evaluates the date column and
\* rejects components that form no date (otherwise the column is null or is
\* pruned as unused, and nothing is raised).
QueryError(t, date_raises) ==
    IF \E i \in 1..Len(t) : CastFails(t[i])
    THEN "InvalidOperationError: integer cast"
    ELSE IF \E i \in 1..Len(t) : CastAmountFails(t[i])
    THEN "InvalidOperationError: Amount to Float32"
    ELSE IF date_raises /\ \E i \in 1..Len(t) : InvalidDate(t[i]) THEN "ComputeError"
    ELSE "none"

\* group_by without the MCC column.
GroupKey_without_MCC(d) ==
    <<d.Year, d.Month, d.Merchant_State, d.Use_Chip, Null, d.is_fraud>>

\* The six columns of group_by.
GroupKey(d) ==
    <<d.Year, d.Month, d.Merchant_State, d.Use_Chip, d.MCC, d.is_fraud>>

\* The rows of frame lf that fall in the group of key k (null keys form
\* groups like any other value).
GroupRows(lf, k) == {i \in 1..Len(lf) : GroupKey(lf[i]) = k}

RECURSIVE SumAmounts(_, _)
SumAmounts(lf, g) ==
    IF g = {} THEN 0
    ELSE LET i == CHOOSE j \in g : TRUE
         IN  Val(lf[i].amount_clean) + SumAmounts(lf, g \ {i})

NonNullAmounts(lf, g) == {i \in g : ~IsNull(lf[i].amount_clean)}

RECURSIVE Gcd(_, _)
Gcd(a, b) == IF b = 0 THEN a ELSE Gcd(b, a % b)

\* The exact quotient s / n (n > 0, s >= 0) in lowest terms.
Ratio(s, n) == <<s \div Gcd(s, n), n \div Gcd(s, n)>>

\* pl.col("amount_clean").count() in place of pl.len(): nulls not counted.
total_transactions_nonnull(lf, g) == Cardinality(NonNullAmounts(lf, g))

\* pl.len()
total_transactions(lf, g) == Cardinality(g)

RECURSIVE SumValues(_)
SumValues(V) ==
    IF V = {} THEN 0
    ELSE LET v == CHOOSE x \in V : TRUE IN v + SumValues(V \ {v})

\* The sum of the distinct cleaned amounts in place of the sum of all.
total_amount_unique(lf, g) ==
    SumValues({Val(lf[i].amount_clean) : i \in NonNullAmounts(lf, g)})

\* pl.col("amount_clean").sum(): nulls are skipped, the sum of none is 0.
total_amount(lf, g) == SumAmounts(lf, NonNullAmounts(lf, g))

\* The sum divided by the number of rows in place of the mean of the
\* non-null values.
avg_amount_over_len(lf, g) ==
    Some(Ratio(SumAmounts(lf, NonNullAmounts(lf, g)), Cardinality(g)))

\* pl.col("amount_clean").mean(): the mean of the non-null values, null
\* when there is none.
avg_amount(lf, g) ==
    IF NonNullAmounts(lf, g) = {} THEN Null
    ELSE Some(Ratio(SumAmounts(lf, NonNullAmounts(lf, g)),
                    Cardinality(NonNullAmounts(lf, g))))

\* pl.col("has_error").sum()
error_count(lf, g) == Cardinality({i \in g : lf[i].has_error})

\* pl.col("User").n_unique()
unique_users(lf, g) == Cardinality({lf[i].User : i \in g})

\* One row of the cube: the group's key and its five measures.
CubeRow(lf, k) ==
    [ Year |-> k[1], Month |-> k[2], Merchant_State |-> k[3],
      Use_Chip |-> k[4], MCC |-> k[5], is_fraud |-> k[6],
      total_transactions |-> total_transactions(lf, GroupRows(lf, k)),
      total_amount |-> total_amount(lf, GroupRows(lf, k)),
      avg_amount |-> avg_amount(lf, GroupRows(lf, k)),
      error_count |-> error_count(lf, GroupRows(lf, k)),
      unique_users |-> unique_users(lf, GroupRows(lf, k)) ]

\* group_by([...]).agg([...]) over frame lf, as a set (row order aside).
group_by_agg(lf) == {CubeRow(lf, GroupKey(lf[i])) : i \in 1..Len(lf)}

\* The cube that evaluating build_optimized_pipeline's frame on t yields.
build_optimized_pipeline(t) == group_by_agg(LazyFrame(t))

----------------------------------------------------------------------------
(* main *)

VARIABLES
    input_file,   \* config.input_file: Null when missing, else Some(table)
    date_raises,  \* whether the engine raises on an invalid date
    pc,           \* main's position
    output_cube,  \* config.output_cube: the parquet file
    log,          \* the records logged by this run, oldest first
    attempts,     \* the write paths this run has called, in order
    sink_error,   \* the exception sink_parquet raised in this run, or "none"
    error,        \* the exception main's outer handler caught, or "none"
    exit_code,    \* Null while running, Some(0) or Some(1) once ended
    prev_cube     \* the cube and write path of the latest earlier successful run

vars == <<input_file, date_raises, pc, output_cube, log, attempts,
          sink_error, error, exit_code, prev_cube>>

\* ETLConfig: compression is one of the three literals, "zstd" by default.
Compressions == {"zstd", "snappy", "lz4"}
ETLConfig == [compression |-> "zstd", streaming |-> TRUE]

NoFile == [status |-> "absent", rows |-> {}]
\* A file that a failed write left incomplete.
PartialFile == [status |-> "partial", rows |-> {}]
Written(rows) == [status |-> "written", rows |-> rows]

table == Val(input_file)

Init ==
    /\ input_file \in {Null} \cup {Some(t) : t \in Tables}
    /\ date_raises \in BOOLEAN
    /\ pc = "start"
    /\ output_cube = NoFile
    /\ log = <<>>
    /\ attempts = <<>>
    /\ sink_error = "none"
    /\ error = "none"
    /\ exit_code = Null
    /\ prev_cube = Null

\* The handler without sys.exit(1): the error is logged and main returns.
CriticalError_without_exit(so_far, e) ==
    /\ error' = e
    /\ log' = Append(so_far, "ERROR Error critico en el ETL")
    /\ exit_code' = Some(0)
    /\ pc' = "done"

\* except Exception as e: logger.error(...); sys.exit(1), after the records
\* so_far were logged.
CriticalError(so_far, e) ==
    /\ error' = e
    /\ log' = Append(so_far, "ERROR Error critico en el ETL")
    /\ exit_code' = Some(1)
    /\ pc' = "aborted"

\* config = ETLConfig(); logger.info("Iniciando proceso ETL")
Start ==
    /\ pc = "start"
    /\ ETLConfig.compression \in Compressions
    /\ log' = Append(log, "INFO Iniciando proceso ETL")
    /\ pc' = "build"
    /\ UNCHANGED <<input_file, date_raises, output_cube, attempts, sink_error,
                   error, exit_code, prev_cube>>

\* build_optimized_pipeline(config) and mkdir succeed.
BuildOk ==
    /\ pc = "build"
    /\ ~IsNull(input_file)
    /\ log' = Append(log, "INFO Ejecutando pipeline")
    /\ pc' = "sink"
    /\ UNCHANGED <<input_file, date_raises, output_cube, attempts, sink_error,
                   error, exit_code, prev_cube>>

\* scan_csv raises on a missing input file, or mkdir fails.
BuildFails ==
    /\ pc = "build"
    /\ \/ IsNull(input_file) /\ CriticalError(log, "FileNotFoundError")
       \/ ~IsNull(input_file) /\ CriticalError(log, "OSError")
    /\ UNCHANGED <<input_file, date_raises, output_cube, attempts, sink_error,
                   prev_cube>>

\* A streaming sink that writes each chunk's groups without merging them
\* (one chunk per record).
SinkOk_per_chunk ==
    /\ pc = "sink"
    /\ QueryError(table, date_raises) = "none"
    /\ attempts' = Append(attempts, "sink_parquet")
    /\ log' = Append(log, "INFO Intentando sink_parquet")
    /\ output_cube' = Written(UNION {group_by_agg(LazyFrame(<<table[i]>>)) :
                                       i \in 1..Len(table)})
    /\ pc' = "finish"
    /\ UNCHANGED <<input_file, date_raises, sink_error, error, exit_code, prev_cube>>

\* pipeline.sink_parquet(...) completes: the cube is in the file.
SinkOk ==
    /\ pc = "sink"
    /\ QueryError(table, date_raises) = "none"
    /\ attempts' = Append(attempts, "sink_parquet")
    /\ log' = Append(log, "INFO Intentando sink_parquet")
    /\ output_cube' = Written(build_optimized_pipeline(table))
    /\ pc' = "finish"
    /\ UNCHANGED <<input_file, date_raises, sink_error, error, exit_code, prev_cube>>

\* sink_parquet without the inner try: its exception reaches the outer
\* handler and no fallback is attempted.
SinkFails_without_fallback ==
    /\ pc = "sink"
    /\ attempts' = Append(attempts, "sink_parquet")
    /\ sink_error' = IF QueryError(table, date_raises) # "none"
                     THEN QueryError(table, date_raises)
                     ELSE "SinkError"
    /\ output_cube' \in {output_cube, PartialFile}
    /\ CriticalError(Append(log, "INFO Intentando sink_parquet"), sink_error')
    /\ UNCHANGED <<input_file, date_raises, prev_cube>>

\* pipeline.sink_parquet(...) raises: the query's own error, or else a failure
\* of the streaming engine or of the write.  The file is untouched or left
\* incomplete.  The inner except catches every Exception.
SinkFails ==
    /\ pc = "sink"
    /\ attempts' = Append(attempts, "sink_parquet")
    /\ log' = Append(log, "INFO Intentando sink_parquet")
    /\ sink_error' = IF QueryError(table, date_raises) # "none"
                     THEN QueryError(table, date_raises)
                     ELSE "SinkError"
    /\ output_cube' \in {output_cube, PartialFile}
    /\ pc' = "fallback"
    /\ UNCHANGED <<input_file, date_raises, error, exit_code, prev_cube>>

\* logger.warning(...); pipeline.collect(streaming=True); write_parquet(...)
FallbackOk ==
    /\ pc = "fallback"
    /\ QueryError(table, date_raises) = "none"
    /\ attempts' = Append(attempts, "collect")
    /\ log' = Append(log, "WARNING sink_parquet no disponible")
    /\ output_cube' = Written(build_optimized_pipeline(table))
    /\ pc' = "finish"
    /\ UNCHANGED <<input_file, date_raises, sink_error, error, exit_code, prev_cube>>

\* collect or write_parquet raises inside the except block: the outer handler
\* takes it.
FallbackFails ==
    /\ pc = "fallback"
    /\ attempts' = Append(attempts, "collect")
    /\ output_cube' \in {output_cube, PartialFile}
    /\ CriticalError(Append(log, "WARNING sink_parquet no disponible"),
                     IF QueryError(table, date_raises) # "none"
                     THEN QueryError(table, date_raises)
                     ELSE "OSError")
    /\ UNCHANGED <<input_file, date_raises, sink_error, prev_cube>>

\* logger.info("FINALIZADO EXITOSAMENTE"), stat of the written file, return.
Finish ==
    /\ pc = "finish"
    /\ log' = Append(log, "INFO FINALIZADO EXITOSAMENTE")
    /\ exit_code' = Some(0)
    /\ pc' = "done"
    /\ UNCHANGED <<input_file, date_raises, output_cube, attempts, sink_error,
                   error, prev_cube>>

\* The script is invoked again on the same input file; the output file stays.
Rerun ==
    /\ pc \in {"done", "aborted"}
    /\ prev_cube' = IF pc = "done"
                    THEN Some([rows |-> output_cube.rows,
                               path |-> attempts[Len(attempts)]])
                    ELSE prev_cube
    /\ pc' = "start"
    /\ log' = <<>>
    /\ attempts' = <<>>
    /\ sink_error' = "none"
    /\ error' = "none"
    /\ exit_code' = Null
    /\ UNCHANGED <<input_file, date_raises, output_cube>>

Next ==
    \/ Start
    \/ BuildOk
    \/ BuildFails
    \/ SinkOk
    \/ SinkFails
    \/ FallbackOk
    \/ FallbackFails
    \/ Finish
    \/ Rerun

Spec == Init /\ [][Next]_vars

----------------------------------------------------------------------------
(* Properties of the written cube *)

\* The cube in the output file, once a write has completed.
CubeWritten == output_cube.status = "written"
Cube == output_cube.rows

\* The six dimension values of a cube row.
Dims(c) == <<c.Year, c.Month, c.Merchant_State, c.Use_Chip, c.MCC, c.is_fraud>>

\* The six dimension values of a raw record.
RawDims(row) ==
    <<row.Year, row.Month, row.Merchant_State, row.Use_Chip, row.MCC, is_fraud(row)>>

RECURSIVE SumTransactions(_)
SumTransactions(C) ==
    IF C = {} THEN 0
    ELSE LET c == CHOOSE x \in C : TRUE
         IN  c.total_transactions + SumTransactions(C \ {c})

RECURSIVE SumTotalAmount(_)
SumTotalAmount(C) ==
    IF C = {} THEN 0
    ELSE LET c == CHOOSE x \in C : TRUE
         IN  c.total_amount + SumTotalAmount(C \ {c})

\* The sum of the cleaned amounts of the records of t whose amount parsed.
RECURSIVE RawAmountSum(_)
RawAmountSum(t) ==
    IF t = <<>> THEN 0
    ELSE (IF IsNull(amount_clean(Head(t))) THEN 0 ELSE Val(amount_clean(Head(t))))
         + RawAmountSum(Tail(t))

\* The raw records with the dimension values of cube row c.
RowsOf(c) == {i \in 1..Len(table) : RawDims(table[i]) = Dims(c)}

\* C1: the sum of total_transactions over the rows of a written cube equals
\* the number of ingested records, whatever nulls they carry.
C1_TransactionsConserved ==
    CubeWritten => SumTransactions(Cube) = Len(table)

\* A written cube of a table holding the all-null record and another one.
C1_Witness ==
    /\ pc = "done"
    /\ Len(table) = 2
    /\ table[1] = NullRow
    /\ table[2] = BaseRow

\* C7: the sum of total_amount over the rows of a written cube equals the
\* sum of the cleaned amounts of the records whose amount parsed.
C7_AmountConserved ==
    CubeWritten => SumTotalAmount(Cube) = RawAmountSum(table)

\* A written cube of a record with a parsed amount and a record of the same
\* group with a null amount.
C7_Witness ==
    /\ pc = "done"
    /\ Len(table) = 2
    /\ table[1] = [BaseRow EXCEPT !.Amount = Some(Amt_1000)]
    /\ table[2] = [BaseRow EXCEPT !.Amount = Null]
    /\ SumTotalAmount(Cube) = 1000

\* C9: a written cube has exactly one row per combination of the six
\* dimensions that occurs among the ingested records: no two rows share a
\* combination, every row counts at least one record, and each row counts
\* exactly the records that carry its combination.
C9_OneRowPerCombination ==
    CubeWritten =>
        /\ \A c1, c2 \in Cube : Dims(c1) = Dims(c2) => c1 = c2
        /\ \A c \in Cube : c.total_transactions >= 1
        /\ {Dims(c) : c \in Cube} = {RawDims(table[i]) : i \in 1..Len(table)}
        /\ \A c \in Cube : c.total_transactions = Cardinality(RowsOf(c))

\* A written cube of two records that differ in the merchant category only.
C9_Witness ==
    /\ pc = "done"
    /\ Len(table) = 2
    /\ table[1] = BaseRow
    /\ table[2] = [BaseRow EXCEPT !.MCC = Some(5912)]
    /\ Cardinality(Cube) = 2

\* The records of cube row c's group whose cleaned amount is not null.
ParsedRowsOf(c) == {i \in RowsOf(c) : ~IsNull(amount_clean(table[i]))}

\* C2 as stated: in every row of a written cube avg_amount is total_amount
\* divided by total_transactions, also when a record of the group has a null
\* cleaned amount.
C2_AvgIsTotalOverCount ==
    CubeWritten =>
        \A c \in Cube :
            /\ ~IsNull(c.avg_amount)
            /\ Val(c.avg_amount)[1] * c.total_transactions
                 = c.total_amount * Val(c.avg_amount)[2]

\* C2 amended: avg_amount is total_amount divided by the number of records
\* of the group whose cleaned amount is not null, and is null when there is
\* none; so it is total_amount / total_transactions in every group without a
\* null cleaned amount.
C2_AvgIsTotalOverParsedCount ==
    CubeWritten =>
        \A c \in Cube :
            IF ParsedRowsOf(c) = {}
            THEN IsNull(c.avg_amount) /\ c.total_amount = 0
            ELSE /\ ~IsNull(c.avg_amount)
                 /\ Val(c.avg_amount)[2] > 0
                 /\ Val(c.avg_amount)[1] * Cardinality(ParsedRowsOf(c))
                      = c.total_amount * Val(c.avg_amount)[2]

\* A written cube with a group of two records, one of them with a null
\* cleaned amount.
C2_Witness ==
    /\ pc = "done"
    /\ \E c \in Cube :
          /\ c.total_transactions = 2
          /\ Cardinality(ParsedRowsOf(c)) = 1

\* The ingested records whose fraud flag reads "Yes", "YES" or "yes".
YesTexts == {Str_Yes, Str_YES, Str_yes}
FlaggedYes == {i \in 1..Len(table) :
                 ~IsNull(table[i].Is_Fraud) /\ Val(table[i].Is_Fraud) \in YesTexts}

\* C3 as stated: every record is counted under is_fraud true or false: the
\* records flagged "YES", "yes" or "Yes" under true, all others (a null flag
\* included) under false, and no cube row has a null is_fraud.
C3_FraudFlagIsBoolean ==
    CubeWritten =>
        /\ \A c \in Cube : c.is_fraud \in {Some(TRUE), Some(FALSE)}
        /\ SumTransactions({c \in Cube : c.is_fraud = Some(TRUE)})
             = Cardinality(FlaggedYes)
        /\ SumTransactions({c \in Cube : c.is_fraud = Some(FALSE)})
             = Len(table) - Cardinality(FlaggedYes)

\* C4 as stated: an Amount that cannot be parsed never makes the run fail.
C4_UnparsedAmountNotFatal ==
    pc = "aborted" => error # "InvalidOperationError: Amount to Float32"

\* The ingested records whose (Year, Month, Day) is a calendar date or has a
\* null component.
DatedRows == {i \in 1..Len(table) : ~InvalidDate(table[i])}

\* C8 as stated: a record whose (Year, Month, Day) is no calendar date is
\* counted in no cube row.
C8_InvalidDateNotCounted ==
    CubeWritten =>
        /\ SumTransactions(Cube) = Cardinality(DatedRows)
        /\ \A c \in Cube : \A i \in RowsOf(c) : ~InvalidDate(table[i])

\* C5: sink_parquet is called first; collect/write_parquet is called only
\* after sink_parquet raised, and then whatever it raised; a run that ends
\* through the fallback has logged the warning, exits with status 0 and
\* leaves the cube of the input in the file.
C5_StreamingFirstThenFallback ==
    /\ attempts \in {<<>>, <<"sink_parquet">>, <<"sink_parquet", "collect">>}
    /\ Len(attempts) = 2 => sink_error # "none"
    /\ sink_error # "none" => (pc = "fallback" \/ Len(attempts) = 2)
    /\ (pc = "done" /\ Len(attempts) = 2) =>
          /\ \E i \in 1..Len(log) : log[i] = "WARNING sink_parquet no disponible"
          /\ \A i \in 1..Len(log) : log[i] # "ERROR Error critico en el ETL"
          /\ exit_code = Some(0)
          /\ error = "none"
          /\ CubeWritten
          /\ SumTransactions(Cube) = Len(table)

\* A run that ended through the fallback after the streaming write failed.
C5_Witness ==
    /\ pc = "done"
    /\ attempts = <<"sink_parquet", "collect">>
    /\ sink_error = "SinkError"
    /\ Len(table) = 2

\* C6: a run in which setup fails (missing input file, mkdir) or the
\* fallback fails is aborted with exit status 1 after the error was logged,
\* and never finishes successfully; a missing input file stops the run
\* before any write is attempted.
C6_FatalFailuresAbort ==
    /\ error # "none" =>
          /\ pc = "aborted"
          /\ exit_code = Some(1)
          /\ log # <<>>
          /\ log[Len(log)] = "ERROR Error critico en el ETL"
    /\ pc = "aborted" => error # "none"
    /\ pc \in {"finish", "done"} => error = "none"
    /\ pc = "done" => exit_code = Some(0)
    /\ IsNull(input_file) => pc \in {"start", "build", "aborted"} /\ attempts = <<>>
    /\ exit_code = Some(1) => pc = "aborted"

\* A run aborted because the materialization fallback failed.
C6_Witness ==
    /\ pc = "aborted"
    /\ attempts = <<"sink_parquet", "collect">>
    /\ error = "OSError"
    /\ exit_code = Some(1)

====
